---- MODULE Spec2Model ----
(***************************************************************************)
(* Shadow Enchanters API: the points ledger, the house registry and the    *)
(* quiz scorers of src/main.py ("main") and src/backend/main.py            *)
(* ("backend"), as a state machine over the Supabase store.  Every store   *)
(* call (.execute()) is one atomic step; a request handler is a process    *)
(* whose position between its store calls is req[p].pc.                    *)
(***************************************************************************)
EXTENDS Integers, Sequences, FiniteSets, TLC

VARIABLES
    variant,    \* which program is deployed: "main" or "backend"
    rpcs,       \* the SQL functions behind supabase.rpc(...) that were created
    adminKey,   \* os.getenv("ADMIN_API_KEY"): None or the configured key
    students,   \* table students: id -> [house, total]
    houses,     \* table houses: name -> total_points
    tx,         \* table point_transactions, in insertion order; each row also
                \* notes the house its handler read for the student (history,
                \* not a column)
    quiz,       \* table quiz_answers, in insertion order
    req,        \* the request each worker is handling
    budget,     \* number of requests the run still accepts
    submitted,  \* history: the calls in the order they were submitted
    scorer,     \* scorer under test: "keyword" or "numeric"
    answers,    \* its input
    result      \* its output (None before it ran)

storeVars == <<students, houses, tx, quiz>>
scoreVars == <<scorer, answers, result>>
vars == <<variant, rpcs, adminKey, students, houses, tx, quiz, req, budget,
          submitted, scorer, answers, result>>

None == "None"

\* ---------------------------------------------------------------- bounds

MaxAnswers == 4
\* requests accepted in a run with parallel workers, and with one worker
MaxOps == 3
MaxSeqOps == 4

\* ------------------------------------------------------------ quiz scorers

HOUSES == <<"Gryffindor", "Slytherin", "Hufflepuff", "Ravenclaw">>

HouseNames == {HOUSES[i] : i \in 1..Len(HOUSES)}

\* Text is a sequence of characters.
UpperCase == <<"A","B","C","D","E","F","G","H","I","J","K","L","M",
               "N","O","P","Q","R","S","T","U","V","W","X","Y","Z">>

LowerCase == <<"a","b","c","d","e","f","g","h","i","j","k","l","m",
               "n","o","p","q","r","s","t","u","v","w","x","y","z">>

\* str.lower(), one character at a time
LowerChar(c) ==
    IF \E i \in 1..Len(UpperCase) : UpperCase[i] = c
    THEN LowerCase[CHOOSE i \in 1..Len(UpperCase) : UpperCase[i] = c]
    ELSE c

Lower(s) == [i \in 1..Len(s) |-> LowerChar(s[i])]

\* k in s
Contains(s, k) ==
    \E off \in 0..(Len(s) - Len(k)) : \A j \in 1..Len(k) : s[off + j] = k[j]

Keywords ==
    [Gryffindor |-> << <<"b","r","a","v","e">>, <<"c","o","u","r","a","g","e">>,
                       <<"d","a","r","i","n","g">>, <<"b","o","l","d">> >>,
     Slytherin  |-> << <<"a","m","b","i","t","i","o","n">>, <<"c","u","n","n","i","n","g">>,
                       <<"p","o","w","e","r">>, <<"l","e","a","d">> >>,
     Hufflepuff |-> << <<"l","o","y","a","l">>, <<"p","a","t","i","e","n","c","e">>,
                       <<"k","i","n","d">>, <<"f","a","i","r">> >>,
     Ravenclaw  |-> << <<"w","i","s","d","o","m">>, <<"l","e","a","r","n">>,
                       <<"w","i","t">>, <<"c","l","e","v","e","r">> >>]

\* any(k in al for k in [...])
AnyKeyword(h, al) == \E i \in 1..Len(Keywords[h]) : Contains(al, Keywords[h][i])

ZeroScores == [h \in HouseNames |-> 0]

\* (mutation of KeywordStep) one point for every keyword found in the answer
KeywordStepPerKeyword(scores, a) ==
    LET al == Lower(a)
    IN  [h \in HouseNames |->
            scores[h] + Cardinality({i \in 1..Len(Keywords[h]) : Contains(al, Keywords[h][i])})]

\* one pass of the loop body of map_quiz_to_house
KeywordStep(scores, a) ==
    LET al == Lower(a)
    IN  [h \in HouseNames |-> IF AnyKeyword(h, al) THEN scores[h] + 1 ELSE scores[h]]

RECURSIVE KeywordScores(_)
KeywordScores(as) ==
    IF as = <<>> THEN ZeroScores
    ELSE KeywordStep(KeywordScores(SubSeq(as, 1, Len(as) - 1)), as[Len(as)])

Max2(a, b) == IF a > b THEN a ELSE b
Min2(a, b) == IF a < b THEN a ELSE b

\* (mutation of ClampIndex) an out-of-range value wraps around the four houses
ClampIndexWraps(v) == v % 4

\* idx = max(0, min(3, a.answer_value))
ClampIndex(v) == Max2(0, Min2(3, v))

\* one pass of the loop body of assign_house_from_quiz
NumericStep(scores, v) ==
    LET h == HOUSES[ClampIndex(v) + 1]
    IN  [scores EXCEPT ![h] = @ + 1]

RECURSIVE NumericScores(_)
NumericScores(as) ==
    IF as = <<>> THEN ZeroScores
    ELSE NumericStep(NumericScores(SubSeq(as, 1, Len(as) - 1)), as[Len(as)])

\* (mutation of KeepsBest) a later item replaces the candidate on a tie as well
KeepsBestLastWins(best, cand) == cand < best

\* max() keeps its candidate unless a later item is strictly greater
KeepsBest(best, cand) == ~(cand > best)

\* max(scores.items(), key=lambda x: x[1])[0]: the dict iterates in HOUSES order
RECURSIVE PyMaxFrom(_, _, _)
PyMaxFrom(scores, i, best) ==
    IF i > Len(HOUSES) THEN best
    ELSE IF KeepsBest(scores[best], scores[HOUSES[i]])
         THEN PyMaxFrom(scores, i + 1, best)
         ELSE PyMaxFrom(scores, i + 1, HOUSES[i])

\* (mutation of PyMax) no house is named when every tally is 0
PyMaxOrUnsorted(scores) ==
    IF \A i \in 1..Len(HOUSES) : scores[HOUSES[i]] = 0 THEN "Unsorted"
    ELSE PyMaxFrom(scores, 2, HOUSES[1])

PyMax(scores) == PyMaxFrom(scores, 2, HOUSES[1])

map_quiz_to_house(as) == PyMax(KeywordScores(as))

assign_house_from_quiz(as) == PyMax(NumericScores(as))

\* ------------------------------------------------------------------ store

StudentIds == {"s1", "s2"}

\* the id the identity provider gives the default admin user
AdminId == "admin"

Ids == StudentIds \cup {AdminId}

Deltas == {-1, 2}

AdminSecret == "secret"

\* table.upsert(row, on_conflict=key): insert the row, or overwrite the row
\* that has the key with the given columns (PostgREST merge-duplicates)
Upsert(table, key, row) ==
    [k \in DOMAIN table \cup {key} |-> IF k = key THEN row ELSE table[k]]

\* table.update(...).eq(key): changes the row when there is one
UpdateWhere(table, key, row) ==
    IF key \in DOMAIN table THEN [table EXCEPT ![key] = row] ELSE table

\* (mutation of Insert) the new row is put in front of the existing rows
InsertNewestFirst(table, row) == <<row>> \o table

\* table.insert(row): the table gets one more row, after the rows it has
Insert(table, row) == Append(table, row)

\* rows = [{"name": h, "total_points": 0} for h in HOUSES]; upsert(rows)
SeededHouses == [h \in HouseNames |-> 0]

\* SQL function ensure_house_exists(house_name): insert with total 0 when absent
RpcEnsure(table, name) ==
    IF name \in DOMAIN table THEN table ELSE Upsert(table, name, 0)

\* SQL function adjust_house_points(house_name, delta): atomic increment,
\* creating the house with total delta when absent
RpcAdjust(table, name, delta) ==
    IF name \in DOMAIN table THEN [table EXCEPT ![name] = @ + delta]
    ELSE Upsert(table, name, delta)

\* --------------------------------------------------------------- requests

\* the workers handling requests
Procs == {1, 2}

Idle ==
    [op |-> "idle", pc |-> "done", sid |-> None, delta |-> 0, ans |-> <<>>,
     house |-> None, rtotal |-> 0, cur |-> 0, k |-> 0, status |-> 0, ret |-> 0,
     eff |-> {}, hdr |-> None]

CanStart(p) == req[p].pc = "done" /\ budget > 0

Begin(p, r) ==
    /\ req' = [req EXCEPT ![p] = r]
    /\ budget' = budget - 1

\* the handler returns or raises: the response is kept, the locals go
Finish(p, r, status, ret) ==
    req' = [req EXCEPT ![p] = [r EXCEPT !.pc = "done", !.status = status, !.ret = ret,
                                        !.ans = <<>>, !.rtotal = 0, !.cur = 0, !.k = 0]]

Goto(p, r, pc) == req' = [req EXCEPT ![p] = [r EXCEPT !.pc = pc]]

At(p, pc) == req[p].pc = pc

\* admin_guard(x_admin_key): main.py only; backend/main.py has no guard
admin_guard(header) ==
    IF adminKey = None THEN TRUE ELSE header = adminKey

Headers == {None, AdminSecret}

\* the X-Admin-Key header of a request, as far as it can matter: admin_guard
\* does not look at it when no key is configured
XAdminKey(header) == IF adminKey = None THEN None ELSE header

envVars == <<variant, rpcs, adminKey>>

\* ------------------------------------------ house registry (src/main.py)

\* where a request goes on once ensure_house_exists has returned
AfterEnsure(r) ==
    CASE r.op = "quiz" -> "mq_update"
      [] r.op = "ensure" -> "done"
      [] OTHER -> "adj_select"

Resume(p, r, pc) ==
    IF pc = "done" THEN Finish(p, r, 200, r.ret) ELSE Goto(p, r, pc)

\* ensure_house_exists: supabase.rpc("ensure_house_exists") returns
EnsureRpc(p) ==
    /\ At(p, "ens_rpc")
    /\ "ensure_house_exists" \in rpcs
    /\ houses' = RpcEnsure(houses, req[p].house)
    /\ Resume(p, req[p], AfterEnsure(req[p]))
    /\ UNCHANGED <<envVars, students, tx, quiz, budget, submitted, scoreVars>>

\* ensure_house_exists: the rpc raises, except Exception takes over
EnsureRpcRaises(p) ==
    /\ At(p, "ens_rpc")
    /\ "ensure_house_exists" \notin rpcs
    /\ Goto(p, req[p], "ens_upsert")
    /\ UNCHANGED <<envVars, storeVars, budget, submitted, scoreVars>>

\* ensure_house_exists: upsert({"name": name, "total_points": 0}, on_conflict="name")
EnsureUpsert(p) ==
    /\ At(p, "ens_upsert")
    /\ houses' = Upsert(houses, req[p].house, 0)
    /\ Resume(p, req[p], AfterEnsure(req[p]))
    /\ UNCHANGED <<envVars, students, tx, quiz, budget, submitted, scoreVars>>

\* adjust_house_points: supabase.rpc("adjust_house_points") returns
AdjustRpc(p) ==
    /\ At(p, "adj_rpc")
    /\ "adjust_house_points" \in rpcs
    /\ houses' = RpcAdjust(houses, req[p].house, req[p].delta)
    /\ Finish(p, [req[p] EXCEPT !.eff = @ \cup {"house"}], 200, req[p].ret)
    /\ UNCHANGED <<envVars, students, tx, quiz, budget, submitted, scoreVars>>

\* adjust_house_points: the rpc raises; the fallback starts with ensure_house_exists
AdjustRpcRaises(p) ==
    /\ At(p, "adj_rpc")
    /\ "adjust_house_points" \notin rpcs
    /\ Goto(p, req[p], "ens_rpc")
    /\ UNCHANGED <<envVars, storeVars, budget, submitted, scoreVars>>

\* fallback: res = select("total_points").eq("name", house).limit(1)
AdjustSelect(p) ==
    /\ At(p, "adj_select")
    /\ LET current == IF req[p].house \in DOMAIN houses THEN houses[req[p].house] ELSE 0
       IN  Goto(p, [req[p] EXCEPT !.cur = current], "adj_update")
    /\ UNCHANGED <<envVars, storeVars, budget, submitted, scoreVars>>

\* fallback: update({"total_points": current + delta}).eq("name", house)
AdjustUpdate(p) ==
    /\ At(p, "adj_update")
    /\ houses' = UpdateWhere(houses, req[p].house, req[p].cur + req[p].delta)
    /\ Finish(p, [req[p] EXCEPT !.eff = @ \cup {"house"}], 200, req[p].ret)
    /\ UNCHANGED <<envVars, students, tx, quiz, budget, submitted, scoreVars>>

\* ------------------------------------------------ admin_points (src/main.py)

\* POST /admin/points arrives: admin_guard, require_supabase
StartPoints(p) ==
    /\ variant = "main"
    /\ CanStart(p)
    /\ \E s \in Ids, d \in Deltas, hdr \in Headers :
         LET r == [Idle EXCEPT !.op = "points", !.sid = s, !.delta = d,
                               !.hdr = XAdminKey(hdr)]
         IN  IF admin_guard(hdr)
             THEN /\ Begin(p, [r EXCEPT !.pc = "pt_select"])
                  /\ submitted' = Append(submitted, [op |-> "points", key |-> s, delta |-> d])
             ELSE /\ Begin(p, [r EXCEPT !.status = 401])
                  /\ UNCHANGED submitted
    /\ UNCHANGED <<envVars, storeVars, scoreVars>>

\* sres = select("assigned_house,total_points").eq("id", student_id).limit(1)
PointsSelect(p) ==
    /\ At(p, "pt_select")
    /\ IF req[p].sid \in DOMAIN students
       THEN Goto(p, [req[p] EXCEPT !.house = students[req[p].sid].house,
                                   !.rtotal = students[req[p].sid].total], "pt_insert")
       ELSE Finish(p, req[p], 404, 0)
    /\ UNCHANGED <<envVars, storeVars, budget, submitted, scoreVars>>

\* table("point_transactions").insert({...})
PointsInsert(p) ==
    /\ At(p, "pt_insert")
    /\ tx' = Insert(tx, [student |-> req[p].sid, delta |-> req[p].delta,
                         house |-> req[p].house])
    /\ Goto(p, [req[p] EXCEPT !.eff = @ \cup {"tx"}], "pt_update")
    /\ UNCHANGED <<envVars, students, houses, quiz, budget, submitted, scoreVars>>

\* (mutation of NewTotal) the total that was read is dropped
NewTotalDropsRead(read, delta) == delta

\* new_total = int(student.get("total_points", 0)) + payload.delta
NewTotal(read, delta) == read + delta

\* update({"total_points": new_total}).eq("id", student_id); then
\* adjust_house_points(house, delta), which returns at once when house is unset
PointsUpdate(p) ==
    /\ At(p, "pt_update")
    /\ LET new_total == NewTotal(req[p].rtotal, req[p].delta)
           r == [req[p] EXCEPT !.eff = @ \cup {"total"}, !.ret = new_total]
       IN  /\ students' = IF req[p].sid \in DOMAIN students
                          THEN [students EXCEPT ![req[p].sid].total = new_total]
                          ELSE students
           /\ IF req[p].house = None
              THEN Finish(p, r, 200, new_total)
              ELSE Goto(p, r, "adj_rpc")
    /\ UNCHANGED <<envVars, houses, tx, quiz, budget, submitted, scoreVars>>

\* ---------------------------------------- admin_points (src/backend/main.py)

\* POST /admin/points arrives: ensure_client; there is no admin guard
StartPointsB(p) ==
    /\ variant = "backend"
    /\ CanStart(p)
    /\ \E s \in Ids, d \in Deltas, hdr \in Headers :
         /\ Begin(p, [Idle EXCEPT !.op = "points", !.sid = s, !.delta = d, !.pc = "bp_select",
                                  !.hdr = XAdminKey(hdr)])
         /\ submitted' = Append(submitted, [op |-> "points", key |-> s, delta |-> d])
    /\ UNCHANGED <<envVars, storeVars, scoreVars>>

\* the status the handler answers an absent student with: .single() raises on
\* no row, and the HTTPException(404) of the handler's own check is raised
\* inside the try; either way except Exception turns it into a 400
NotFoundStatusB == 400

\* stu = select(...).eq("id", student_id).single().execute().data
PointsSelectB(p) ==
    /\ At(p, "bp_select")
    /\ IF req[p].sid \in DOMAIN students
       THEN Goto(p, [req[p] EXCEPT !.house = students[req[p].sid].house,
                                   !.rtotal = students[req[p].sid].total], "bp_update")
       ELSE Finish(p, req[p], NotFoundStatusB, 0)
    /\ UNCHANGED <<envVars, storeVars, budget, submitted, scoreVars>>

\* new_total = (stu["total_points"] or 0) + change.delta; update(...)
PointsUpdateB(p) ==
    /\ At(p, "bp_update")
    /\ LET new_total == NewTotal(req[p].rtotal, req[p].delta)
       IN  /\ students' = IF req[p].sid \in DOMAIN students
                          THEN [students EXCEPT ![req[p].sid].total = new_total]
                          ELSE students
           /\ Goto(p, [req[p] EXCEPT !.eff = @ \cup {"total"}, !.ret = new_total], "bp_insert")
    /\ UNCHANGED <<envVars, houses, tx, quiz, budget, submitted, scoreVars>>

\* table("point_transactions").insert({...}); if house: ... else return
PointsInsertB(p) ==
    /\ At(p, "bp_insert")
    /\ tx' = Insert(tx, [student |-> req[p].sid, delta |-> req[p].delta,
                         house |-> req[p].house])
    /\ LET r == [req[p] EXCEPT !.eff = @ \cup {"tx"}]
       IN  IF req[p].house = None
           THEN Finish(p, r, 200, r.ret)
           ELSE Goto(p, r, "bp_rpc")
    /\ UNCHANGED <<envVars, students, houses, quiz, budget, submitted, scoreVars>>

\* client.rpc("adjust_house_points", ...) returns
PointsRpcB(p) ==
    /\ At(p, "bp_rpc")
    /\ "adjust_house_points" \in rpcs
    /\ houses' = RpcAdjust(houses, req[p].house, req[p].delta)
    /\ Finish(p, [req[p] EXCEPT !.eff = @ \cup {"house"}], 200, req[p].ret)
    /\ UNCHANGED <<envVars, students, tx, quiz, budget, submitted, scoreVars>>

\* client.rpc("adjust_house_points", ...) raises: except Exception answers 400
PointsRpcRaisesB(p) ==
    /\ At(p, "bp_rpc")
    /\ "adjust_house_points" \notin rpcs
    /\ Finish(p, req[p], 400, 0)
    /\ UNCHANGED <<envVars, storeVars, budget, submitted, scoreVars>>

\* ------------------------------------------------------- signup, bootstrap

\* the row signup and admin_bootstrap write: assigned_house None, total_points 0
NewProfile == [house |-> None, total |-> 0]

\* ensure_houses_seeded(): upsert(rows, on_conflict="name")
SeedHouses(table) ==
    [k \in DOMAIN table \cup HouseNames |->
        IF k \in HouseNames THEN SeededHouses[k] ELSE table[k]]

\* POST /auth/signup (src/main.py): the identity provider gives the user id
\* (sign_up, get_user_by_email or create_user), or the handler answers 400
StartSignup(p) ==
    /\ variant = "main"
    /\ CanStart(p)
    /\ \E s \in StudentIds, authOk \in BOOLEAN :
         LET r == [Idle EXCEPT !.op = "signup", !.sid = s]
         IN  IF authOk
             THEN Begin(p, [r EXCEPT !.pc = "su_seed"])
             ELSE Begin(p, [r EXCEPT !.status = 400])
    /\ UNCHANGED <<envVars, storeVars, submitted, scoreVars>>

\* signup: ensure_houses_seeded()
SignupSeed(p) ==
    /\ At(p, "su_seed")
    /\ houses' = SeedHouses(houses)
    /\ Goto(p, req[p], "su_upsert")
    /\ UNCHANGED <<envVars, students, tx, quiz, budget, submitted, scoreVars>>

\* signup: table("students").upsert(profile, on_conflict="id")
SignupUpsert(p) ==
    /\ At(p, "su_upsert")
    /\ students' = Upsert(students, req[p].sid, NewProfile)
    /\ Finish(p, req[p], 200, 0)
    /\ UNCHANGED <<envVars, houses, tx, quiz, budget, submitted, scoreVars>>

\* POST /auth/signup (src/backend/main.py): sign_up gives the user, or the
\* handler answers 400
StartSignupB(p) ==
    /\ variant = "backend"
    /\ CanStart(p)
    /\ \E s \in StudentIds, authOk \in BOOLEAN :
         LET r == [Idle EXCEPT !.op = "signup", !.sid = s]
         IN  IF authOk
             THEN Begin(p, [r EXCEPT !.pc = "bs_insert"])
             ELSE Begin(p, [r EXCEPT !.status = 400])
    /\ UNCHANGED <<envVars, storeVars, submitted, scoreVars>>

\* signup: table("students").insert(profile); a second row for the id is
\* refused by the store, and except Exception answers 400
SignupInsertB(p) ==
    /\ At(p, "bs_insert")
    /\ IF req[p].sid \in DOMAIN students
       THEN /\ Finish(p, req[p], 400, 0)
            /\ UNCHANGED students
       ELSE /\ students' = Upsert(students, req[p].sid, NewProfile)
            /\ Finish(p, req[p], 200, 0)
    /\ UNCHANGED <<envVars, houses, tx, quiz, budget, submitted, scoreVars>>

\* POST /admin/bootstrap (src/main.py): admin_guard, require_supabase
StartBootstrap(p) ==
    /\ variant = "main"
    /\ CanStart(p)
    /\ \E hdr \in Headers :
         LET r == [Idle EXCEPT !.op = "bootstrap", !.sid = AdminId, !.hdr = XAdminKey(hdr)]
         IN  IF admin_guard(hdr)
             THEN Begin(p, [r EXCEPT !.pc = "mb_seed"])
             ELSE Begin(p, [r EXCEPT !.status = 401])
    /\ UNCHANGED <<envVars, storeVars, submitted, scoreVars>>

\* admin_bootstrap: ensure_houses_seeded()
BootstrapSeed(p) ==
    /\ At(p, "mb_seed")
    /\ houses' = SeedHouses(houses)
    /\ Goto(p, req[p], "mb_upsert")
    /\ UNCHANGED <<envVars, students, tx, quiz, budget, submitted, scoreVars>>

\* admin_bootstrap: table("students").upsert({id: admin_user.id, ...}, on_conflict="id")
BootstrapUpsert(p) ==
    /\ At(p, "mb_upsert")
    /\ students' = Upsert(students, req[p].sid, NewProfile)
    /\ Finish(p, req[p], 200, 0)
    /\ UNCHANGED <<envVars, houses, tx, quiz, budget, submitted, scoreVars>>

\* admin_bootstrap: get_user_by_email raised and create_user raises too
BootstrapAuthRaises(p) ==
    /\ At(p, "mb_upsert")
    /\ Finish(p, req[p], 500, 0)
    /\ UNCHANGED <<envVars, storeVars, budget, submitted, scoreVars>>

\* POST /admin/bootstrap (src/backend/main.py): no guard; k counts the loop
StartBootstrapB(p) ==
    /\ variant = "backend"
    /\ CanStart(p)
    /\ \E hdr \in Headers :
         Begin(p, [Idle EXCEPT !.op = "bootstrap", !.pc = "bb_upsert", !.k = 1,
                               !.hdr = XAdminKey(hdr)])
    /\ UNCHANGED <<envVars, storeVars, submitted, scoreVars>>

\* for h in HOUSES: table("houses").upsert({"name": h, "total_points": 0}).
\* No on_conflict is given, so the store resolves on the primary key: where that
\* is name the row is overwritten (this action); where it is not, a row that
\* exists makes the insert collide (BootstrapUpsertCollidesB).
BootstrapUpsertB(p) ==
    /\ At(p, "bb_upsert")
    /\ houses' = Upsert(houses, HOUSES[req[p].k], 0)
    /\ IF req[p].k < Len(HOUSES)
       THEN Goto(p, [req[p] EXCEPT !.k = @ + 1], "bb_upsert")
       ELSE Finish(p, req[p], 200, 0)
    /\ UNCHANGED <<envVars, students, tx, quiz, budget, submitted, scoreVars>>

\* admin_bootstrap: the upsert collides with the row of the same name, and
\* except Exception answers 400
BootstrapUpsertCollidesB(p) ==
    /\ At(p, "bb_upsert")
    /\ HOUSES[req[p].k] \in DOMAIN houses
    /\ Finish(p, req[p], 400, 0)
    /\ UNCHANGED <<envVars, storeVars, budget, submitted, scoreVars>>

\* ------------------------------------------------------------ admin reads

\* GET /admin/overview (src/main.py): admin_guard(x_admin_key), then two selects
StartOverview(p) ==
    /\ variant = "main"
    /\ CanStart(p)
    /\ \E hdr \in Headers :
         LET r == [Idle EXCEPT !.op = "overview", !.hdr = XAdminKey(hdr)]
         IN  IF admin_guard(hdr)
             THEN Begin(p, [r EXCEPT !.pc = "ov_houses"])
             ELSE Begin(p, [r EXCEPT !.status = 401])
    /\ UNCHANGED <<envVars, storeVars, submitted, scoreVars>>

\* GET /admin/overview (src/backend/main.py): no guard, the header is not read
StartOverviewB(p) ==
    /\ variant = "backend"
    /\ CanStart(p)
    /\ \E hdr \in Headers :
         Begin(p, [Idle EXCEPT !.op = "overview", !.pc = "ov_houses", !.hdr = XAdminKey(hdr)])
    /\ UNCHANGED <<envVars, storeVars, submitted, scoreVars>>

\* admin_overview: table("houses").select("name,total_points")
OverviewHouses(p) ==
    /\ At(p, "ov_houses")
    /\ Goto(p, [req[p] EXCEPT !.eff = @ \cup {"read"}], "ov_top")
    /\ UNCHANGED <<envVars, storeVars, budget, submitted, scoreVars>>

\* admin_overview: table("students").select(...).order(...).limit(10); return
OverviewTop(p) ==
    /\ At(p, "ov_top")
    /\ Finish(p, req[p], 200, 0)
    /\ UNCHANGED <<envVars, storeVars, budget, submitted, scoreVars>>

\* GET /admin/students (src/main.py): admin_guard(x_admin_key), then one select
StartStudents(p) ==
    /\ variant = "main"
    /\ CanStart(p)
    /\ \E hdr \in Headers :
         LET r == [Idle EXCEPT !.op = "students", !.hdr = XAdminKey(hdr)]
         IN  IF admin_guard(hdr)
             THEN Begin(p, [r EXCEPT !.pc = "st_select"])
             ELSE Begin(p, [r EXCEPT !.status = 401])
    /\ UNCHANGED <<envVars, storeVars, submitted, scoreVars>>

\* GET /admin/students (src/backend/main.py): no guard, the header is not read
StartStudentsB(p) ==
    /\ variant = "backend"
    /\ CanStart(p)
    /\ \E hdr \in Headers :
         Begin(p, [Idle EXCEPT !.op = "students", !.pc = "st_select", !.hdr = XAdminKey(hdr)])
    /\ UNCHANGED <<envVars, storeVars, submitted, scoreVars>>

\* admin_students: table("students").select(...) with the optional house filter
StudentsSelect(p) ==
    /\ At(p, "st_select")
    /\ Finish(p, [req[p] EXCEPT !.eff = @ \cup {"read"}], 200, 0)
    /\ UNCHANGED <<envVars, storeVars, budget, submitted, scoreVars>>

\* ------------------------------------------------------------ quiz submission

\* the answer lists the requests of this model carry
T_brave == <<"B","r","a","v","e">>
T_cunning == <<"c","u","n","n","i","n","g">>
T_plain == <<"h","e","l","l","o">>

QuizInputs == {<<>>, <<T_brave>>, <<T_cunning, T_plain>>}

QuizInputsB == {<<>>, <<1, 1, 1, 0>>, <<0, 1>>}

\* POST /quiz/submit/{user_id} (src/main.py): house = map_quiz_to_house(answers)
StartQuiz(p) ==
    /\ variant = "main"
    /\ CanStart(p)
    /\ \E s \in StudentIds, as \in QuizInputs :
         /\ Begin(p, [Idle EXCEPT !.op = "quiz", !.sid = s, !.ans = as,
                                  !.house = map_quiz_to_house(as), !.pc = "mq_insert"])
         /\ submitted' = Append(submitted, [op |-> "quiz", key |-> s, delta |-> 0])
    /\ UNCHANGED <<envVars, storeVars, scoreVars>>

\* submit_quiz: table("quiz_answers").insert({...}); ensure_house_exists follows
QuizInsert(p) ==
    /\ At(p, "mq_insert")
    /\ quiz' = Insert(quiz, [student |-> req[p].sid, answers |-> req[p].ans])
    /\ Goto(p, req[p], "ens_rpc")
    /\ UNCHANGED <<envVars, students, houses, tx, budget, submitted, scoreVars>>

\* submit_quiz: table("students").update({"assigned_house": house}).eq("id", user_id)
QuizUpdate(p) ==
    /\ At(p, "mq_update")
    /\ students' = IF req[p].sid \in DOMAIN students
                   THEN [students EXCEPT ![req[p].sid].house = req[p].house]
                   ELSE students
    /\ Finish(p, req[p], 200, 0)
    /\ UNCHANGED <<envVars, houses, tx, quiz, budget, submitted, scoreVars>>

\* POST /quiz/submit/{user_id} (src/backend/main.py): house = assign_house_from_quiz(...)
StartQuizB(p) ==
    /\ variant = "backend"
    /\ CanStart(p)
    /\ \E s \in StudentIds, as \in QuizInputsB :
         /\ Begin(p, [Idle EXCEPT !.op = "quiz", !.sid = s, !.ans = as,
                                  !.house = assign_house_from_quiz(as), !.pc = "bq_update"])
         /\ submitted' = Append(submitted, [op |-> "quiz", key |-> s, delta |-> 0])
    /\ UNCHANGED <<envVars, storeVars, scoreVars>>

\* quiz_submit: table("students").update({"assigned_house": house}).eq("id", user_id)
QuizUpdateB(p) ==
    /\ At(p, "bq_update")
    /\ students' = IF req[p].sid \in DOMAIN students
                   THEN [students EXCEPT ![req[p].sid].house = req[p].house]
                   ELSE students
    /\ Goto(p, req[p], "bq_insert")
    /\ UNCHANGED <<envVars, houses, tx, quiz, budget, submitted, scoreVars>>

\* quiz_submit: table("quiz_answers").insert({...})
QuizInsertB(p) ==
    /\ At(p, "bq_insert")
    /\ quiz' = Insert(quiz, [student |-> req[p].sid, answers |-> req[p].ans])
    /\ Goto(p, req[p], "bq_rpc")
    /\ UNCHANGED <<envVars, students, houses, tx, budget, submitted, scoreVars>>

\* quiz_submit: client.rpc("ensure_house_exists", ...) returns
QuizRpcB(p) ==
    /\ At(p, "bq_rpc")
    /\ "ensure_house_exists" \in rpcs
    /\ houses' = RpcEnsure(houses, req[p].house)
    /\ Finish(p, req[p], 200, 0)
    /\ UNCHANGED <<envVars, students, tx, quiz, budget, submitted, scoreVars>>

\* quiz_submit: the rpc raises, except Exception answers 400
QuizRpcRaisesB(p) ==
    /\ At(p, "bq_rpc")
    /\ "ensure_house_exists" \notin rpcs
    /\ Finish(p, req[p], 400, 0)
    /\ UNCHANGED <<envVars, storeVars, budget, submitted, scoreVars>>

\* ----------------------------------------------------------- specifications

RpcNames == {"ensure_house_exists", "adjust_house_points"}

Env ==
    /\ variant \in {"main", "backend"}
    /\ rpcs \in SUBSET RpcNames
    /\ adminKey \in {None, AdminSecret}

NoRequests ==
    /\ req = [p \in Procs |-> Idle]
    /\ submitted = <<>>

NoScoring ==
    /\ scorer = None
    /\ answers = <<>>
    /\ result = None

\* the points ledger on its own: the students have signed up (total 0, no
\* transactions yet), some have taken the quiz, the houses are seeded
InitLedger ==
    /\ Env
    /\ adminKey = None
    /\ students \in [StudentIds -> {[house |-> h, total |-> 0] : h \in {None, "Gryffindor"}}]
    /\ houses = SeededHouses
    /\ tx = <<>>
    /\ quiz = <<>>
    /\ NoRequests
    /\ NoScoring

InitLedgerPar == InitLedger /\ budget = MaxOps

InitLedgerSeq == InitLedger /\ budget = MaxSeqOps

RegistrySteps(p) ==
    \/ EnsureRpc(p)
    \/ EnsureRpcRaises(p)
    \/ EnsureUpsert(p)
    \/ AdjustRpc(p)
    \/ AdjustRpcRaises(p)
    \/ AdjustSelect(p)
    \/ AdjustUpdate(p)

PointsSteps(p) ==
    \/ PointsSelect(p)
    \/ PointsInsert(p)
    \/ PointsUpdate(p)
    \/ PointsSelectB(p)
    \/ PointsUpdateB(p)
    \/ PointsInsertB(p)
    \/ PointsRpcB(p)
    \/ PointsRpcRaisesB(p)

\* no request is being handled
Quiet == \A q \in Procs : req[q].pc = "done"

\* the only worker of a deployment that handles one request at a time
FirstWorker == CHOOSE p \in Procs : \A q \in Procs : p <= q

\* admin_points requests handled in parallel
NextLedger ==
    \E p \in Procs :
        \/ StartPoints(p)
        \/ StartPointsB(p)
        \/ PointsSteps(p)
        \/ RegistrySteps(p)

SpecLedger == InitLedgerPar /\ [][NextLedger]_vars

\* admin_points requests handled one after another
NextLedgerSeq ==
    \E p \in {FirstWorker} :
        \/ StartPoints(p)
        \/ StartPointsB(p)
        \/ PointsSteps(p)
        \/ RegistrySteps(p)

SpecLedgerSeq == InitLedgerSeq /\ [][NextLedgerSeq]_vars

\* the store as created: no rows
EmptyTable == [k \in {} |-> 0]

InitStore ==
    /\ Env
    /\ adminKey = None
    /\ students = EmptyTable
    /\ houses = EmptyTable
    /\ tx = <<>>
    /\ quiz = <<>>
    /\ NoRequests
    /\ NoScoring

SignupSteps(p) ==
    \/ SignupSeed(p)
    \/ SignupUpsert(p)
    \/ SignupInsertB(p)

BootstrapSteps(p) ==
    \/ BootstrapSeed(p)
    \/ BootstrapUpsert(p)
    \/ BootstrapAuthRaises(p)
    \/ BootstrapUpsertB(p)
    \/ BootstrapUpsertCollidesB(p)

QuizSteps(p) ==
    \/ QuizInsert(p)
    \/ QuizUpdate(p)
    \/ QuizUpdateB(p)
    \/ QuizInsertB(p)
    \/ QuizRpcB(p)
    \/ QuizRpcRaisesB(p)

Steps(p) ==
    \/ SignupSteps(p)
    \/ BootstrapSteps(p)
    \/ QuizSteps(p)
    \/ PointsSteps(p)
    \/ RegistrySteps(p)

\* the whole service, its requests handled in parallel
Next ==
    \E p \in Procs :
        \/ StartSignup(p)
        \/ StartSignupB(p)
        \/ StartBootstrap(p)
        \/ StartBootstrapB(p)
        \/ StartQuiz(p)
        \/ StartQuizB(p)
        \/ StartPoints(p)
        \/ StartPointsB(p)
        \/ Steps(p)

Init == InitStore /\ budget = MaxOps

Spec == Init /\ [][Next]_vars

\* the whole service, one request at a time
NextSeq ==
    \E p \in {FirstWorker} :
        \/ StartSignup(p)
        \/ StartSignupB(p)
        \/ StartBootstrap(p)
        \/ StartBootstrapB(p)
        \/ StartQuiz(p)
        \/ StartQuizB(p)
        \/ StartPoints(p)
        \/ StartPointsB(p)
        \/ Steps(p)

InitSeq == InitStore /\ budget = MaxSeqOps

SpecSeq == InitSeq /\ [][NextSeq]_vars

\* the whole service with its admin reads, one request at a time, with and
\* without an admin key configured
MaxAdminOps == 3

ReadSteps(p) ==
    \/ OverviewHouses(p)
    \/ OverviewTop(p)
    \/ StudentsSelect(p)

NextAdmin ==
    \/ NextSeq
    \/ \E p \in {FirstWorker} :
          \/ StartOverview(p)
          \/ StartOverviewB(p)
          \/ StartStudents(p)
          \/ StartStudentsB(p)
          \/ ReadSteps(p)

InitAdmin ==
    /\ Env
    /\ students = EmptyTable
    /\ houses = EmptyTable
    /\ tx = <<>>
    /\ quiz = <<>>
    /\ NoRequests
    /\ NoScoring
    /\ budget = MaxAdminOps

SpecAdmin == InitAdmin /\ [][NextAdmin]_vars

\* ------------------------------------------------- the registry on its own

RegistryHouses == {"Gryffindor", "Ravenclaw"}

RegistryDeltas == {1, 2}

\* a caller invokes adjust_house_points(house, delta) of src/main.py
StartAdjust(p) ==
    /\ variant = "main"
    /\ CanStart(p)
    /\ \E h \in RegistryHouses, d \in RegistryDeltas :
         /\ Begin(p, [Idle EXCEPT !.op = "adjust", !.house = h, !.delta = d, !.pc = "adj_rpc"])
         /\ submitted' = Append(submitted, [op |-> "adjust", key |-> h, delta |-> d])
    /\ UNCHANGED <<envVars, storeVars, scoreVars>>

\* a caller invokes ensure_house_exists(name) of src/main.py
StartEnsure(p) ==
    /\ variant = "main"
    /\ CanStart(p)
    /\ \E h \in RegistryHouses :
         /\ Begin(p, [Idle EXCEPT !.op = "ensure", !.house = h, !.pc = "ens_rpc"])
         /\ submitted' = Append(submitted, [op |-> "ensure", key |-> h, delta |-> 0])
    /\ UNCHANGED <<envVars, storeVars, scoreVars>>

\* Gryffindor has a row with total 0, Ravenclaw has none; no request yet
InitRegistry ==
    /\ variant = "main"
    /\ rpcs \in SUBSET RpcNames
    /\ adminKey = None
    /\ students = EmptyTable
    /\ houses = [h \in {"Gryffindor"} |-> 0]
    /\ tx = <<>>
    /\ quiz = <<>>
    /\ NoRequests
    /\ NoScoring
    /\ budget = MaxOps

NextRegistry ==
    \E p \in Procs :
        \/ StartAdjust(p)
        \/ StartEnsure(p)
        \/ RegistrySteps(p)

SpecRegistry == InitRegistry /\ [][NextRegistry]_vars

\* --------------------------------------------------- store calls that raise

\* the status a handler answers with when a store call raises: src/main.py
\* lets the exception through (500), src/backend/main.py catches it (400)
ErrorStatus == IF variant = "main" THEN 500 ELSE 400

\* positions whose store call, when it raises, ends the request (the rpc calls
\* of src/main.py are inside try/except and fall back instead)
Raising == {"pt_select", "pt_insert", "pt_update", "ens_upsert", "adj_select",
            "adj_update", "bp_select", "bp_update", "bp_insert", "bp_rpc"}

\* the store call the request is about to make raises
StoreRaises(p) ==
    /\ req[p].pc \in Raising
    /\ Finish(p, req[p], ErrorStatus, 0)
    /\ UNCHANGED <<envVars, storeVars, budget, submitted, scoreVars>>

\* admin_points requests one after another, over a store whose calls may raise
NextLedgerFault ==
    \E p \in {FirstWorker} :
        \/ StartPoints(p)
        \/ StartPointsB(p)
        \/ PointsSteps(p)
        \/ RegistrySteps(p)
        \/ StoreRaises(p)

SpecLedgerFault == InitLedgerPar /\ [][NextLedgerFault]_vars

\* ------------------------------------------------------ the scorers alone

T_kind == <<"K","I","N","D">>
T_learn == <<"I"," ","l","e","a","r","n">>
T_boldwit == <<"b","o","l","d"," ","w","i","t">>
T_bravebold == <<"B","r","a","v","e"," ","b","o","l","d">>

Texts == {T_plain, T_brave, T_cunning, T_kind, T_learn, T_boldwit, T_bravebold}

AnswerValues == -1..4

SeqsUpTo(S, n) == UNION {[1..k -> S] : k \in 0..n}

InitScore ==
    /\ variant \in {"main", "backend"}
    /\ rpcs = {}
    /\ adminKey = None
    /\ students = EmptyTable
    /\ houses = EmptyTable
    /\ tx = <<>>
    /\ quiz = <<>>
    /\ NoRequests
    /\ budget = 0
    /\ scorer = IF variant = "main" THEN "keyword" ELSE "numeric"
    /\ answers \in IF variant = "main" THEN SeqsUpTo(Texts, MaxAnswers)
                                      ELSE SeqsUpTo(AnswerValues, MaxAnswers)
    /\ result = None

\* house = map_quiz_to_house(payload.answers)
ScoreKeyword ==
    /\ scorer = "keyword"
    /\ result = None
    /\ result' = map_quiz_to_house(answers)
    /\ UNCHANGED <<envVars, storeVars, req, budget, submitted, scorer, answers>>

\* house = assign_house_from_quiz(submission.answers)
ScoreNumeric ==
    /\ scorer = "numeric"
    /\ result = None
    /\ result' = assign_house_from_quiz(answers)
    /\ UNCHANGED <<envVars, storeVars, req, budget, submitted, scorer, answers>>

NextScore == ScoreKeyword \/ ScoreNumeric

SpecScore == InitScore /\ [][NextScore]_vars

\* quiz submissions on their own, handled in parallel, for students that exist
NextQuiz ==
    \E p \in Procs :
        \/ StartQuiz(p)
        \/ StartQuizB(p)
        \/ QuizSteps(p)
        \/ EnsureRpc(p)
        \/ EnsureRpcRaises(p)
        \/ EnsureUpsert(p)

SpecQuiz == InitLedgerPar /\ [][NextQuiz]_vars

\* ===================================================================== claims

RECURSIVE SumSeq(_)
SumSeq(ds) == IF ds = <<>> THEN 0 ELSE Head(ds) + SumSeq(Tail(ds))

\* the deltas of the admin_points calls submitted for student s, in order
SubmittedDeltas(s) ==
    LET IsFor(e) == e.op = "points" /\ e.key = s
        sel == SelectSeq(submitted, IsFor)
    IN  [i \in 1..Len(sel) |-> sel[i].delta]

\* the deltas of the point_transactions rows of student s, in insertion order
LedgerDeltas(s) ==
    LET IsFor(r) == r.student = s
        sel == SelectSeq(tx, IsFor)
    IN  [i \in 1..Len(sel) |-> sel[i].delta]

\* C1: when several admin_points requests run concurrently (interleaved at
\* their store calls, also for the same student) and all of them have
\* completed, every student's total_points equals the sum of the deltas of
\* that student's point_transactions rows.
C1_TotalsMatchLedgerWhenDone ==
    Quiet => \A s \in DOMAIN students : students[s].total = SumSeq(LedgerDeltas(s))

\* C2: after admin_points calls run one after another with deltas d1..dn for
\* an existing student, total_points is d1+...+dn, the ledger holds exactly
\* those n rows in submission order, and a call that answers 200 returns the
\* sum of the deltas submitted so far; only the backend's call for a housed
\* student without the adjust_house_points function answers anything else.
C2_SequentialLedger ==
    Quiet =>
        /\ \A s \in DOMAIN students :
              /\ LedgerDeltas(s) = SubmittedDeltas(s)
              /\ students[s].total = SumSeq(SubmittedDeltas(s))
        /\ \A p \in Procs :
              (req[p].op = "points" /\ req[p].sid \in DOMAIN students) =>
                 /\ req[p].status = 200 => req[p].ret = SumSeq(SubmittedDeltas(req[p].sid))
                 /\ req[p].status /= 200 =>
                       /\ variant = "backend"
                       /\ "adjust_house_points" \notin rpcs
                       /\ req[p].house /= None

\* C2 witness: three calls for s1, -1 then 2 then 2, the last one returning 3
C2_Witness ==
    /\ Quiet
    /\ "s1" \in DOMAIN students
    /\ SubmittedDeltas("s1") = <<-1, 2, 2>>
    /\ LedgerDeltas("s1") = <<-1, 2, 2>>
    /\ students["s1"].total = 3
    /\ \E p \in Procs : req[p].op = "points" /\ req[p].sid = "s1"
                        /\ req[p].status = 200 /\ req[p].ret = 3

\* C3: N concurrent adjust_house_points(house, +1) calls against a house
\* whose total is 0 leave the total exactly N on every path of the function:
\* the rpc and the select-then-update fallback.
C3_NoLostHouseUpdate ==
    (/\ Quiet
     /\ Len(submitted) >= 1
     /\ \A i \in 1..Len(submitted) :
           submitted[i] = [op |-> "adjust", key |-> "Gryffindor", delta |-> 1])
    => houses["Gryffindor"] = Len(submitted)

\* the house the quiz_answers row i was scored to
ScoredHouse(i) ==
    IF variant = "main" THEN map_quiz_to_house(quiz[i].answers)
    ELSE assign_house_from_quiz(quiz[i].answers)

\* h has students, and each of them was put into h and never moved
NoChurn(h) ==
    /\ \E i \in 1..Len(quiz) : ScoredHouse(i) = h
    /\ \A i \in 1..Len(quiz) :
          ScoredHouse(i) = h =>
             /\ quiz[i].student \in DOMAIN students
             /\ students[quiz[i].student].house = h
             /\ \A j \in 1..Len(quiz) :
                   quiz[j].student = quiz[i].student => ScoredHouse(j) = h

\* the deltas applied to students while they were assigned to h
AttributedDeltas(h) ==
    LET IsFor(r) == r.house = h
        sel == SelectSeq(tx, IsFor)
    IN  [i \in 1..Len(sel) |-> sel[i].delta]

\* C4: for a house none of whose students is ever reassigned, after any
\* sequence of signup, quiz submission, bootstrap and admin_points operations
\* the house's total_points is the sum of the deltas applied to a student
\* while that student was assigned to the house.  (Stated for the deployment
\* in which both SQL functions were created, so that no rpc call raises.)
C4_HouseTotalIsAttributedSum ==
    (Quiet /\ rpcs = RpcNames) =>
        \A h \in DOMAIN houses :
            NoChurn(h) => houses[h] = SumSeq(AttributedDeltas(h))

\* everything an admin_points call of request r writes
AllEffects(r) == {"tx", "total"} \cup (IF r.house = None THEN {} ELSE {"house"})

\* C5: admin_points is atomic as a unit: when a store call inside it fails,
\* the call has left either none of its effects or all of them (transaction
\* appended, student total updated, assigned house adjusted).
C5_PointsAllOrNothing ==
    \A p \in Procs :
        (req[p].op = "points" /\ req[p].pc = "done") =>
            req[p].eff = {} \/ req[p].eff = AllEffects(req[p])

\* C6: admin_points for a student id without a row in students answers 404
\* and has no side effect.
C6_UnknownStudentIs404 ==
    \A p \in Procs :
        (req[p].op = "points" /\ req[p].pc = "done" /\ req[p].sid \notin DOMAIN students) =>
            /\ req[p].status = 404
            /\ req[p].eff = {}
            /\ \A i \in 1..Len(tx) : tx[i].student /= req[p].sid

\* the step is taken by a request whose operation is one of ops
StepOf(ops) == \E p \in Procs : req[p].op \in ops /\ req'[p] /= req[p]

\* every house keeps its row and its total in this step
HouseTotalsKept == \A h \in DOMAIN houses : h \in DOMAIN houses' /\ houses'[h] = houses[h]

\* C7: ensure_house_exists(name), on the rpc path and on the upsert path,
\* leaves one row for name whose total_points is what it was before the call
\* (0 if the house was absent).
C7_EnsureKeepsTotals ==
    [][StepOf({"ensure"}) =>
          /\ HouseTotalsKept
          /\ \A h \in DOMAIN houses' \ DOMAIN houses : houses'[h] = 0]_vars

\* C8: signup and admin_bootstrap leave the total_points of every existing
\* house unchanged, and no operation deletes a house.  (Stated for
\* src/main.py, whose seeding names its conflict key.)
C8_SeedingKeepsHouseTotals ==
    [][variant = "main" =>
          /\ \A h \in DOMAIN houses : h \in DOMAIN houses'
          /\ StepOf({"signup", "bootstrap"}) => HouseTotalsKept]_vars

\* C9: once a student row exists, its total_points is changed only by
\* admin_points and its assigned_house only by a quiz submission (a repeated
\* signup or bootstrap leaves both unchanged), and no student is deleted.
C9_StudentFieldsFramed ==
    [][\A s \in DOMAIN students :
          /\ s \in DOMAIN students'
          /\ students'[s].total /= students[s].total => StepOf({"points"})
          /\ students'[s].house /= students[s].house => StepOf({"quiz"})]_vars

\* the tallies the scorer under test gives its input
Tallies == IF scorer = "keyword" THEN KeywordScores(answers) ELSE NumericScores(answers)

\* position of a house in HOUSES
HouseIndex(h) == CHOOSE i \in 1..Len(HOUSES) : HOUSES[i] = h

\* C10: both scorers return a house with the highest tally; among the houses
\* that share the highest tally it is the first in the order Gryffindor,
\* Slytherin, Hufflepuff, Ravenclaw; for no answers it is Gryffindor.
C10_HighestTallyFirstInOrder ==
    result /= None =>
        /\ result \in HouseNames
        /\ \A h \in HouseNames : Tallies[h] <= Tallies[result]
        /\ \A i \in 1..(HouseIndex(result) - 1) : Tallies[HOUSES[i]] < Tallies[result]
        /\ answers = <<>> => result = "Gryffindor"

\* C10 witness: a tie for the highest tally that does not include Gryffindor
C10_Witness ==
    /\ result = "Slytherin"
    /\ Tallies["Slytherin"] > 0
    /\ \E h \in HouseNames \ {"Slytherin"} : Tallies[h] = Tallies["Slytherin"]

\* the answers (by position) that the numeric scorer counts for house h: the
\* value itself when it is 0..3, the first house below 0, the last above 3
NumericVotes(h) ==
    {i \in 1..Len(answers) :
        HouseIndex(h) - 1 = (IF answers[i] < 0 THEN 0
                             ELSE IF answers[i] > 3 THEN 3 ELSE answers[i])}

\* C11: the numeric scorer adds exactly 1 per answer to the tally of exactly
\* one house, the house at index min(3, max(0, answer_value)); the four tallies
\* sum to the number of answers, and [1,1,1,0] gives 1,3,0,0 and house index 1.
C11_NumericOneVoteEach ==
    (scorer = "numeric" /\ result /= None) =>
        /\ \A h \in HouseNames : Tallies[h] = Cardinality(NumericVotes(h))
        /\ SumSeq([i \in 1..Len(HOUSES) |-> Tallies[HOUSES[i]]]) = Len(answers)
        /\ answers = <<1, 1, 1, 0>> =>
              /\ Tallies = [Gryffindor |-> 1, Slytherin |-> 3, Hufflepuff |-> 0, Ravenclaw |-> 0]
              /\ result = HOUSES[1 + 1]

\* C11 witness: values below 0 and above 3 have been scored
C11_Witness ==
    /\ scorer = "numeric"
    /\ answers = <<-1, 4, 4, 2>>
    /\ result = "Ravenclaw"
    /\ Tallies = [Gryffindor |-> 1, Slytherin |-> 0, Hufflepuff |-> 1, Ravenclaw |-> 2]

\* the text with every lower-case letter replaced by its upper-case letter
Upper(s) ==
    [i \in 1..Len(s) |->
        IF \E j \in 1..Len(LowerCase) : LowerCase[j] = s[i]
        THEN UpperCase[CHOOSE j \in 1..Len(LowerCase) : LowerCase[j] = s[i]]
        ELSE s[i]]

\* the answers (by position) whose lower-cased text holds a keyword of house h
KeywordVotes(h) == {i \in 1..Len(answers) : AnyKeyword(h, Lower(answers[i]))}

\* C12: the keyword scorer adds exactly 1 per answer to the tally of every
\* house with at least one keyword in the lower-cased answer and 0 to the
\* others, however many keywords of one house the answer holds; letter case
\* of the answer does not matter.
C12_KeywordOnePerMatchedHouse ==
    (scorer = "keyword" /\ result /= None) =>
        /\ \A h \in HouseNames : Tallies[h] = Cardinality(KeywordVotes(h))
        /\ KeywordScores([i \in 1..Len(answers) |-> Upper(answers[i])]) = Tallies
        /\ result = map_quiz_to_house([i \in 1..Len(answers) |-> Upper(answers[i])])

\* C12 witness: an answer with two keywords of one house, one with keywords of
\* two houses and one in capitals have been scored
C12_Witness ==
    /\ scorer = "keyword"
    /\ result = "Gryffindor"
    /\ answers = <<T_bravebold, T_boldwit, T_kind>>
    /\ Tallies = [Gryffindor |-> 2, Slytherin |-> 0, Hufflepuff |-> 1, Ravenclaw |-> 1]

\* C13: a step of a quiz submission changes no student's total_points, no
\* point_transactions row and no existing house's total_points; it changes
\* the assigned_house of the submitting student only, appends at most its one
\* quiz_answers row, and a house row it creates has total 0.
C13_QuizFrame ==
    [][StepOf({"quiz"}) =>
          /\ tx' = tx
          /\ HouseTotalsKept
          /\ \A h \in DOMAIN houses' \ DOMAIN houses : houses'[h] = 0
          /\ DOMAIN students' = DOMAIN students
          /\ \A s \in DOMAIN students :
                /\ students'[s].total = students[s].total
                /\ students'[s].house /= students[s].house =>
                      \E p \in Procs : req[p].op = "quiz" /\ req[p].sid = s
          /\ \/ quiz' = quiz
             \/ \E p \in Procs :
                   /\ req[p].op = "quiz"
                   /\ quiz' = Append(quiz, [student |-> req[p].sid, answers |-> req[p].ans])]_vars

\* the quiz_answers rows (by position) of student s
QuizRowsOf(s) == {i \in 1..Len(quiz) : quiz[i].student = s}

\* the quiz submissions accepted for student s
QuizCallsOf(s) == {i \in 1..Len(submitted) : submitted[i].op = "quiz" /\ submitted[i].key = s}

\* C14: once every quiz submission for an existing student has completed,
\* whether they ran one after another or interleaved, quiz_answers holds one
\* row per submission and the student's assigned_house is the house scored
\* from the most recently inserted row.
C14_HouseFollowsLatestRow ==
    Quiet =>
        \A s \in DOMAIN students :
            /\ Cardinality(QuizRowsOf(s)) = Cardinality(QuizCallsOf(s))
            /\ QuizRowsOf(s) /= {} =>
                  LET last == CHOOSE i \in QuizRowsOf(s) : \A j \in QuizRowsOf(s) : j <= i
                  IN  students[s].house = ScoredHouse(last)

\* the rows of before are the first rows of after, unchanged and in order
KeepsRows(before, after) ==
    /\ Len(before) <= Len(after)
    /\ \A i \in 1..Len(before) : after[i] = before[i]

\* C15: point_transactions and quiz_answers are append-only: every step of
\* every operation leaves the rows already there unchanged and in place, and
\* adds at most one row at the end.
C15_AppendOnly ==
    [][/\ KeepsRows(tx, tx') /\ Len(tx') <= Len(tx) + 1
       /\ KeepsRows(quiz, quiz') /\ Len(quiz') <= Len(quiz) + 1]_vars

\* C15 witness: point_transactions got a second, different row after its first
C15_Witness ==
    /\ Len(tx) >= 2
    /\ tx[1] /= tx[2]
    /\ Quiet

AdminOps == {"overview", "students", "points", "bootstrap"}

\* C17: with an admin key configured, an admin request (overview, students
\* list, points change, bootstrap) whose X-Admin-Key header is not the key is
\* answered 401 before any store call; with no key configured no admin
\* request is answered 401.
C17_AdminGuard ==
    \A p \in Procs :
        req[p].op \in AdminOps =>
            /\ (adminKey /= None /\ req[p].hdr /= adminKey) =>
                   (req[p].pc = "done" /\ req[p].status = 401 /\ req[p].eff = {})
            /\ adminKey = None => req[p].status /= 401

\* C18: adjust_house_points(name, delta) on a house that has no row leaves a
\* row with total_points = delta, on the rpc path and on the fallback path,
\* also when ensure_house_exists calls for the same name were made before it
\* returned (one after another or concurrently with it).
C18_AdjustCreatesRow ==
    (/\ Quiet
     /\ Len(submitted) >= 1
     /\ submitted[Len(submitted)].op = "adjust"
     /\ \A i \in 1..Len(submitted) : submitted[i].key = "Ravenclaw"
     /\ \A i \in 1..(Len(submitted) - 1) : submitted[i].op = "ensure")
    => /\ "Ravenclaw" \in DOMAIN houses
       /\ houses["Ravenclaw"] = submitted[Len(submitted)].delta

\* C19: while a single admin_points call runs (no other request running), a
\* student's total_points is the sum of the student's point_transactions
\* rows, or that sum less the delta of the call whose row is appended and
\* whose total is not yet persisted: the total is never ahead of the log.
C19_TotalNeverAheadOfLog ==
    \A s \in DOMAIN students :
        LET logged == SumSeq(LedgerDeltas(s))
        IN  \/ students[s].total = logged
            \/ \E p \in Procs :
                  /\ req[p].op = "points" /\ req[p].pc /= "done" /\ req[p].sid = s
                  /\ "tx" \in req[p].eff /\ "total" \notin req[p].eff
                  /\ students[s].total = logged - req[p].delta

\* C20: an admin_points call for a student whose assigned_house is unset
\* changes no house total and creates no house row; a call for a student with
\* a house changes that house's total only, by exactly delta. So after calls
\* made one at a time, none of which failed, every house's total is the sum of
\* the deltas given to students of that house, and no row was added.
C20_HouseChangesByDelta ==
    (Quiet /\ (variant = "main" \/ "adjust_house_points" \in rpcs)) =>
        /\ DOMAIN houses = HouseNames
        /\ \A h \in HouseNames : houses[h] = SumSeq(AttributedDeltas(h))

====
